---- MODULE Spec2Model ----
(***************************************************************************)
(* Model of gui/src-tauri/src/lib.rs of figma-flow-capture: the recording  *)
(* session manager (start_recording, stop_recording, get_recording_status  *)
(* over the ACTIVE_RECORDINGS registry) and the dependency prober          *)
(* (get_command_search_paths, find_command_path, check_command,            *)
(* check_system_dependencies).                                             *)
(***************************************************************************)
EXTENDS Naturals, Sequences, FiniteSets, TLC

\* ------------------------------------------------------------------------
\* Bounds
\* ------------------------------------------------------------------------
\* number of session ids (uuids) the model draws
MaxSessions == 2
\* commands (start_recording, stop_recording, get_recording_status) invoked
\* in one run
MaxCalls == 5

\* entries of the PATH variable
MaxPathEntries == 2

SessionIds == 1..MaxSessions

\* Option<T>: None is the empty sequence, Some(x) the one-element sequence
None == <<>>
Some(x) == <<x>>

\* ------------------------------------------------------------------------
\* Paths of the working directory: a sequence of components, <<>> is "/"
\* ------------------------------------------------------------------------
\* current_dir.to_string_lossy().contains("gui")
ContainsGui(path) ==
    \E k \in 1..Len(path) : path[k] \in {"gui", "gui-src-tauri"}

\* current_dir.to_string_lossy().contains("src-tauri")
ContainsSrcTauri(path) ==
    \E k \in 1..Len(path) : path[k] \in {"src-tauri", "gui-src-tauri"}

\* Path::parent(): None for the root, else the path without its last component
Parent(path) ==
    IF Len(path) = 0 THEN None ELSE Some(SubSeq(path, 1, Len(path) - 1))

\* the working directories the model draws for a call
WorkingDirs ==
    { <<"proj">>, <<"proj", "gui">>, <<"proj", "gui", "src-tauri">>,
      <<"gui-src-tauri">> }

\* project_root of start_recording: Some(root), or None where `?` returns Err
StartProjectRoot(current_dir) ==
    IF ContainsGui(current_dir)
    THEN IF ContainsSrcTauri(current_dir)
         THEN IF Parent(current_dir) = None
              THEN None
              ELSE Parent(Parent(current_dir)[1])
         ELSE Parent(current_dir)
    ELSE Some(current_dir)

\* ------------------------------------------------------------------------
\* The recorder command line of start_recording.  A string that is split is
\* a sequence of pieces: "/" and "?" are the separators, any other piece is
\* text without a separator
\* ------------------------------------------------------------------------
\* the string a sequence of pieces spells
RECURSIVE Spell(_)
Spell(pieces) ==
    IF pieces = <<>> THEN "" ELSE Head(pieces) \o Spell(Tail(pieces))

\* str::split(sep): the parts between the separators, empty parts included
RECURSIVE Split(_, _)
Split(pieces, sep) ==
    IF \A k \in 1..Len(pieces) : pieces[k] # sep THEN <<pieces>>
    ELSE LET k == CHOOSE i \in 1..Len(pieces) :
                     /\ pieces[i] = sep
                     /\ \A j \in 1..(i - 1) : pieces[j] # sep
         IN <<SubSeq(pieces, 1, k - 1)>>
            \o Split(SubSeq(pieces, k + 1, Len(pieces)), sep)

\* part.contains("FarsiLang"): no two pieces spell it together
ContainsFarsiLang(part) == \E k \in 1..Len(part) : part[k] = "FarsiLang"

\* url_parts.iter().find(|part| part.contains("FarsiLang") || part.len() > 10)
RECURSIVE FindPart(_, _)
FindPart(url_parts, k) ==
    IF k > Len(url_parts) THEN None
    ELSE IF ContainsFarsiLang(url_parts[k]) \/ Len(Spell(url_parts[k])) > 10
    THEN Some(url_parts[k])
    ELSE FindPart(url_parts, k + 1)

\* clean_name of start_recording
CleanName(figma_url) ==
    LET found == FindPart(Split(figma_url, "/"), 1)
        part == IF found = None THEN <<"recording">> ELSE found[1]
    IN Spell(Split(part, "?")[1])

\* u32::to_string(), u128::to_string(): the decimal digits
Digits == <<"0", "1", "2", "3", "4", "5", "6", "7", "8", "9">>

RECURSIVE Decimal(_)
Decimal(n) ==
    IF n < 10 THEN Digits[n + 1]
    ELSE Decimal(n \div 10) \o Digits[(n % 10) + 1]

\* bool::to_string()
BoolString(b) == IF b THEN "true" ELSE "false"

\* output_name of start_recording
OutputName(figma_url, timestamp) ==
    CleanName(figma_url) \o "-" \o Decimal(timestamp)

RecordingOptions(figma_url, recording_mode, quality, custom_width, custom_height, duration, format, frame_rate, wait_for_canvas) ==
    [figma_url |-> figma_url, recording_mode |-> recording_mode,
     quality |-> quality, custom_width |-> custom_width,
     custom_height |-> custom_height, duration |-> duration,
     format |-> format, frame_rate |-> frame_rate,
     wait_for_canvas |-> wait_for_canvas]

\* args of start_recording
RecorderArgs(options) ==
    <<"tsx", "src/cli.ts",
      "--url", Spell(options.figma_url),
      "--mode", options.recording_mode,
      "--format", options.format>>
    \o (IF options.duration # None
        THEN <<"--duration", Decimal(options.duration[1])>> ELSE <<>>)
    \o (IF options.frame_rate # None
        THEN <<"--frame-rate", Decimal(options.frame_rate[1])>> ELSE <<>>)
    \o (IF options.custom_width # None
        THEN <<"--width", Decimal(options.custom_width[1])>> ELSE <<>>)
    \o (IF options.custom_height # None
        THEN <<"--height", Decimal(options.custom_height[1])>> ELSE <<>>)
    \o <<"--wait-for-canvas", BoolString(options.wait_for_canvas)>>

\* ------------------------------------------------------------------------
\* Environment of the dependency prober
\* ------------------------------------------------------------------------
VARIABLES
    env,        \* what the process sees: platform, variables, files, programs
    out         \* value returned by the last prober call

proberVars == <<env, out>>

\* a string with surrounding whitespace: str::trim() leaves the body
Padded(pre, body, post) == [pre |-> pre, body |-> body, post |-> post]
TrimStr(s) == s.body

\* the entries of PATH after split(path_separator), as the model draws them
PathEntries ==
    { Padded("", "/opt/tools", ""), Padded("", "/usr/bin", ""),
      Padded(" ", "/usr/bin", " "), Padded("", "", ""), Padded(" ", "", "") }

\* if let Ok(path_env) = env::var("PATH"): one candidate per non-blank entry
PathCandidates(e, command) ==
    IF e.PATH = None THEN <<>>
    ELSE LET kept == SelectSeq(e.PATH[1], LAMBDA x : TrimStr(x) # "")
         IN [k \in 1..Len(kept) |-> TrimStr(kept[k]) \o "/" \o command]

\* entry.path() of the directories read_dir(~/.nvm/versions/node) lists
NvmCandidates(e) ==
    IF e.HOME = None \/ e.nvmVersions = None THEN <<>>
    ELSE [k \in 1..Len(e.nvmVersions[1]) |->
            e.HOME[1] \o "/.nvm/versions/node/" \o e.nvmVersions[1][k] \o "/bin/node"]

\* the is_dir entries of one Homebrew Cellar directory
CellarCandidates(e, cellar_path) ==
    IF e.cellar[cellar_path] = None THEN <<>>
    ELSE LET dirs == SelectSeq(e.cellar[cellar_path][1], LAMBDA x : x.is_dir)
         IN [k \in 1..Len(dirs) |->
                cellar_path \o "/" \o dirs[k].name \o "/bin/ffmpeg"]

\* #[cfg(target_os = "macos")] block of get_command_search_paths
MacosCandidates(e, command) ==
    <<"/opt/homebrew/bin/" \o command, "/usr/local/bin/" \o command,
      "/usr/bin/" \o command, "/bin/" \o command>>
    \o (IF e.HOME = None THEN <<>>
        ELSE <<e.HOME[1] \o "/.npm-global/bin/" \o command,
               e.HOME[1] \o "/bin/" \o command,
               e.HOME[1] \o "/.nvm/current/bin/" \o command,
               e.HOME[1] \o "/.volta/bin/" \o command,
               e.HOME[1] \o "/Library/pnpm/" \o command>>)
    \o (CASE command = "node" ->
               <<"/Applications/Node.js/bin/node">> \o NvmCandidates(e)
          [] command = "ffmpeg" ->
               <<"/opt/homebrew/bin/ffmpeg", "/usr/local/bin/ffmpeg",
                 "/opt/homebrew/opt/ffmpeg/bin/ffmpeg",
                 "/usr/local/opt/ffmpeg/bin/ffmpeg",
                 "/Applications/FFmpeg/ffmpeg", "/Applications/FFmpeg/bin/ffmpeg",
                 "/usr/local/Cellar/ffmpeg/*/bin/ffmpeg",
                 "/opt/homebrew/Cellar/ffmpeg/*/bin/ffmpeg">>
               \o (IF e.HOME = None THEN <<>>
                   ELSE CellarCandidates(e, "/usr/local/Cellar/ffmpeg")
                        \o CellarCandidates(e, "/opt/homebrew/Cellar/ffmpeg")
                        \o <<"/opt/local/bin/ffmpeg",
                              e.HOME[1] \o "/bin/ffmpeg",
                              e.HOME[1] \o "/.local/bin/ffmpeg">>)
          [] command = "pnpm" ->
               (IF e.HOME = None THEN <<>>
                ELSE <<e.HOME[1] \o "/.local/share/pnpm/pnpm",
                       e.HOME[1] \o "/Library/pnpm/pnpm",
                       e.HOME[1] \o "/.npm-global/bin/pnpm">>)
               \o <<"/usr/local/lib/node_modules/pnpm/bin/pnpm.js",
                     "/opt/homebrew/lib/node_modules/pnpm/bin/pnpm.js">>
          [] OTHER -> <<>>)

\* #[cfg(target_os = "windows")] block of get_command_search_paths
WindowsCandidates(e, command) ==
    <<"C:\\Program Files\\nodejs\\" \o command \o ".exe",
      "C:\\Program Files (x86)\\nodejs\\" \o command \o ".exe",
      "C:\\Windows\\System32\\" \o command \o ".exe",
      "C:\\Windows\\" \o command \o ".exe">>
    \o (IF e.APPDATA = None THEN <<>>
        ELSE <<e.APPDATA[1] \o "\\npm\\" \o command \o ".cmd",
               e.APPDATA[1] \o "\\npm\\" \o command \o ".exe">>)
    \o (IF e.USERPROFILE = None THEN <<>>
        ELSE <<e.USERPROFILE[1] \o "\\AppData\\Roaming\\npm\\" \o command \o ".cmd",
               e.USERPROFILE[1] \o "\\AppData\\Roaming\\npm\\" \o command \o ".exe">>)
    \o (CASE command = "ffmpeg" ->
               <<"C:\\Program Files\\FFmpeg\\bin\\ffmpeg.exe",
                 "C:\\Program Files (x86)\\FFmpeg\\bin\\ffmpeg.exe",
                 "C:\\ffmpeg\\bin\\ffmpeg.exe">>
               \o (IF e.ProgramData = None THEN <<>>
                   ELSE <<e.ProgramData[1] \o "\\chocolatey\\bin\\ffmpeg.exe">>)
          [] command = "pnpm" ->
               (IF e.APPDATA = None THEN <<>>
                ELSE <<e.APPDATA[1] \o "\\npm\\pnpm.cmd">>)
          [] OTHER -> <<>>)

\* #[cfg(target_os = "linux")] block of get_command_search_paths
LinuxCandidates(e, command) ==
    <<"/usr/bin/" \o command, "/usr/local/bin/" \o command, "/bin/" \o command,
      "/snap/bin/" \o command, "/var/lib/flatpak/exports/bin/" \o command>>
    \o (IF e.HOME = None THEN <<>>
        ELSE <<e.HOME[1] \o "/.local/bin/" \o command,
               e.HOME[1] \o "/bin/" \o command,
               e.HOME[1] \o "/.npm-global/bin/" \o command,
               e.HOME[1] \o "/.nvm/current/bin/" \o command>>)
    \o (CASE command = "node" -> NvmCandidates(e)
          [] command = "pnpm" ->
               (IF e.HOME = None THEN <<>>
                ELSE <<e.HOME[1] \o "/.local/share/pnpm/pnpm">>)
          [] OTHER -> <<>>)

\* the vector `paths` of get_command_search_paths before it is deduplicated
GeneratedPaths(e, command) ==
    PathCandidates(e, command)
    \o (CASE e.platform = "macos" -> MacosCandidates(e, command)
          [] e.platform = "windows" -> WindowsCandidates(e, command)
          [] e.platform = "linux" -> LinuxCandidates(e, command)
          [] OTHER -> <<>>)

Contains(sq, x) == \E k \in 1..Len(sq) : sq[k] = x

\* a deduplication that keeps the last occurrence of a path, not the first
RECURSIVE UniquePathsKeepLast(_)
UniquePathsKeepLast(paths) ==
    IF paths = <<>> THEN <<>>
    ELSE IF Contains(Tail(paths), Head(paths))
         THEN UniquePathsKeepLast(Tail(paths))
         ELSE <<Head(paths)>> \o UniquePathsKeepLast(Tail(paths))

\* the loop "Remove duplicates while preserving order": unique_paths after
\* the first k elements of paths
RECURSIVE UniquePrefix(_, _)
UniquePrefix(paths, k) ==
    IF k = 0 THEN <<>>
    ELSE LET unique_paths == UniquePrefix(paths, k - 1)
         IN IF ~Contains(unique_paths, paths[k])
            THEN Append(unique_paths, paths[k])
            ELSE unique_paths

UniquePaths(paths) == UniquePrefix(paths, Len(paths))

\* get_command_search_paths(command)
GetCommandSearchPaths(e, command) == UniquePaths(GeneratedPaths(e, command))

\* ------------------------------------------------------------------------
\* Running programs: std::process::Output as [ran, success, stdout, stderr];
\* ran = FALSE is Command::output() returning Err.  A text is its sequence
\* of lines.
\* ------------------------------------------------------------------------
Output(ran, success, stdout, stderr) ==
    [ran |-> ran, success |-> success, stdout |-> stdout, stderr |-> stderr]

NotRun == Output(FALSE, FALSE, <<>>, <<>>)

\* String::trim() on a text: blank lines at both ends go
RECURSIVE TrimStart(_)
TrimStart(text) ==
    IF text # <<>> /\ Head(text) = "" THEN TrimStart(Tail(text)) ELSE text

RECURSIVE TrimEnd(_)
TrimEnd(text) ==
    IF text # <<>> /\ text[Len(text)] = ""
    THEN TrimEnd(SubSeq(text, 1, Len(text) - 1))
    ELSE text

Trim(text) == TrimEnd(TrimStart(text))

\* the marker a probe reports when the program printed nothing
Installed == <<"installed">>

\* sh -c "source ...; which <command>" (cmd /C "where <command>")
Which(e, command) ==
    IF command \in DOMAIN e.which THEN e.which[command]
    ELSE [success |-> FALSE, stdout |-> Padded("", "", "")]

\* sh -c "source ...; <command> <args>" (cmd /C "<command> <args>")
Shell(e, command, args) ==
    IF <<command, args>> \in DOMAIN e.shell THEN e.shell[<<command, args>>]
    ELSE Output(TRUE, FALSE, <<>>, <<>>)

\* Command::new(path).args(args).output()
Exec(e, path, args) ==
    IF <<path, args>> \in DOMAIN e.exec THEN e.exec[<<path, args>>] ELSE NotRun

\* std::fs::metadata(path) is Ok and is_file(), or the build is for Windows
Usable(e, path) ==
    \/ path \in e.files
    \/ (e.platform = "windows" /\ path \in e.dirs)

\* the loop over potential_paths of find_command_path, from candidate k on
RECURSIVE FirstUsable(_, _, _)
FirstUsable(e, potential_paths, k) ==
    IF k > Len(potential_paths) THEN None
    ELSE IF Usable(e, potential_paths[k]) THEN Some(potential_paths[k])
    ELSE FirstUsable(e, potential_paths, k + 1)

\* find_command_path that looks at the candidate list before it asks which
FindCommandPathListFirst(e, command) ==
    LET found == FirstUsable(e, GetCommandSearchPaths(e, command), 1)
        shell_result == Which(e, command)
    IN IF found # None THEN found
       ELSE IF shell_result.success /\ TrimStr(shell_result.stdout) # ""
            THEN Some(TrimStr(shell_result.stdout))
            ELSE Some(command)

\* find_command_path(command)
FindCommandPath(e, command) ==
    LET shell_result == Which(e, command) IN
    IF shell_result.success /\ TrimStr(shell_result.stdout) # ""
    THEN Some(TrimStr(shell_result.stdout))
    ELSE LET found == FirstUsable(e, GetCommandSearchPaths(e, command), 1)
         IN IF found # None THEN found ELSE Some(command)

\* check_command_with_shell(command, args)
CheckCommandWithShell(e, command, args) ==
    LET output == Shell(e, command, args) IN
    IF output.ran /\ output.success
    THEN <<TRUE,
           Some(IF Trim(output.stdout) = <<>>
                THEN IF Trim(output.stderr) # <<>>
                     THEN Trim(output.stderr)
                     ELSE Installed
                ELSE Trim(output.stdout))>>
    ELSE <<FALSE, None>>

\* check_ffmpeg_specific that gives up at the first candidate that exists
FfmpegPathLoopFirstOnly(e, ffmpeg_paths, k) ==
    LET found == FirstUsable(e, ffmpeg_paths, k) IN
    IF found = None THEN <<FALSE, None>>
    ELSE LET output == Exec(e, found[1], <<"-version">>) IN
         IF output.ran /\ output.success
         THEN IF Trim(output.stdout) # <<>>
              THEN <<TRUE, Some(<<Trim(output.stdout)[1]>>)>>
              ELSE <<TRUE, Some(Installed)>>
         ELSE <<FALSE, None>>

\* the loop over ffmpeg_paths of check_ffmpeg_specific, from candidate k on
RECURSIVE FfmpegPathLoop(_, _, _)
FfmpegPathLoop(e, ffmpeg_paths, k) ==
    IF k > Len(ffmpeg_paths) THEN <<FALSE, None>>
    ELSE LET output == Exec(e, ffmpeg_paths[k], <<"-version">>) IN
         IF Usable(e, ffmpeg_paths[k]) /\ output.ran /\ output.success
         THEN IF Trim(output.stdout) # <<>>
              THEN <<TRUE, Some(<<Trim(output.stdout)[1]>>)>>
              ELSE <<TRUE, Some(Installed)>>
         ELSE FfmpegPathLoop(e, ffmpeg_paths, k + 1)

\* check_ffmpeg_specific()
CheckFfmpegSpecific(e) ==
    LET direct == FfmpegPathLoop(e, GetCommandSearchPaths(e, "ffmpeg"), 1) IN
    IF direct[1] THEN direct
    ELSE IF e.platform = "macos" /\ e.brew.ran /\ e.brew.success
         THEN \* sh -c "ffmpeg -version" with the Homebrew directories in PATH
              IF Trim(e.brew.stdout) # <<>>
              THEN <<TRUE, Some(<<Trim(e.brew.stdout)[1]>>)>>
              ELSE <<TRUE, Some(Installed)>>
         ELSE <<FALSE, None>>

\* check_command(command, args)
CheckCommand(e, command, args) ==
    LET shell == CheckCommandWithShell(e, command, args)
        cmd_path == FindCommandPath(e, command)
        direct_output == Exec(e, cmd_path[1], args)
    IN IF shell[1] THEN shell
       ELSE IF cmd_path # None /\ direct_output.ran /\ direct_output.success
       THEN <<TRUE, Some(IF Trim(direct_output.stdout) = <<>>
                         THEN Installed
                         ELSE Trim(direct_output.stdout))>>
       ELSE IF command = "ffmpeg" /\ CheckFfmpegSpecific(e)[1]
       THEN CheckFfmpegSpecific(e)
       ELSE <<FALSE, None>>

\* PathBuf::to_string_lossy() of an absolute path
RECURSIVE JoinPath(_)
JoinPath(path) ==
    IF path = <<>> THEN ""
    ELSE JoinPath(SubSeq(path, 1, Len(path) - 1)) \o "/" \o path[Len(path)]

PathStr(path) == IF path = <<>> THEN "/" ELSE JoinPath(path)

\* get_project_root_path()
GetProjectRootPath(e) ==
    IF e.cwd = None THEN "."
    ELSE LET cwd == e.cwd[1] IN
         IF cwd \in e.srcDirs /\ cwd \in e.pkgDirs
         THEN PathStr(cwd)
         ELSE IF Parent(cwd) # None /\ Parent(cwd)[1] \in e.srcDirs
         THEN PathStr(Parent(cwd)[1])
         ELSE PathStr(cwd)

\* std::fs::read_dir(path): None where it returns Err (the directory is
\* missing or unreadable), else the entries it yields.  An entry is
\* [ok, name]: ok = FALSE is an Err item of the iterator, name = None a file
\* name that is not valid UTF-8 (OsStr::to_str() is None)
ReadDir(e, path) ==
    IF path \in DOMAIN e.readDir THEN Some(e.readDir[path]) ELSE None

DirEntry(ok, name) == [ok |-> ok, name |-> name]

\* a loop over the entries that ends at the first entry it cannot read
ListedNamesUntilError(entries, k) ==
    LET bad == {i \in 1..k : ~entries[i].ok}
        n == IF bad = {} THEN k
             ELSE (CHOOSE i \in bad : \A j \in bad : i <= j) - 1
        kept == SelectSeq(SubSeq(entries, 1, n), LAMBDA x : x.name # None)
    IN [i \in 1..Len(kept) |-> kept[i].name[1]]

\* the loop of list_recordings over the entries, up to entry k
RECURSIVE ListedNames(_, _)
ListedNames(entries, k) ==
    IF k = 0 THEN <<>>
    ELSE LET recordings == ListedNames(entries, k - 1) IN
         IF entries[k].ok /\ entries[k].name # None
         THEN Append(recordings, entries[k].name[1])
         ELSE recordings

\* list_recordings(): always Ok(recordings)
ListRecordings(e) ==
    LET recordings_path == GetProjectRootPath(e) \o "/recordings"
        entries == ReadDir(e, recordings_path)
    IN IF entries = None THEN <<>>
       ELSE ListedNames(entries[1], Len(entries[1]))

\* check_playwright_browsers()
CheckPlaywrightBrowsers(e) ==
    LET pnpm_path == FindCommandPath(e, "pnpm")
        via_pnpm == CheckCommand(e, pnpm_path[1], <<"exec", "playwright", "--version">>)
        global == CheckCommand(e, "playwright", <<"--version">>)
        npx == CheckCommand(e, "npx", <<"playwright", "--version">>)
        main_project_playwright ==
            GetProjectRootPath(e) \o "/node_modules/.bin/playwright"
        local == CheckCommand(e, main_project_playwright, <<"--version">>)
    IN IF pnpm_path # None /\ via_pnpm[1] THEN via_pnpm
       ELSE IF global[1] THEN global
       ELSE IF npx[1] THEN npx
       ELSE IF local[1] THEN local
       ELSE IF e.cacheEntries # None /\ e.cacheEntries[1] > 0
       THEN <<TRUE, Some(<<"browsers installed">>)>>
       ELSE <<FALSE, None>>

\* get_pnpm_install_command()
GetPnpmInstallCommand(e) ==
    CASE e.platform = "macos" -> "brew install pnpm"
      [] e.platform = "windows" -> "npm install -g pnpm"
      [] e.platform = "linux" -> "curl -fsSL https://get.pnpm.io/install.sh | sh -"
      [] OTHER -> "npm install -g pnpm"

\* get_ffmpeg_install_command()
GetFfmpegInstallCommand(e) ==
    CASE e.platform = "macos" -> Some("brew install ffmpeg")
      [] e.platform = "windows" -> Some("choco install ffmpeg")
      [] e.platform = "linux" -> Some("sudo apt install ffmpeg")
      [] OTHER -> None

SystemDependency(name, installed, version, install_command, install_url) ==
    [name |-> name, installed |-> installed, version |-> version,
     install_command |-> install_command, install_url |-> install_url]

\* dependencies.iter().all(|dep| dep.installed)
AllInstalled(dependencies) ==
    \A k \in 1..Len(dependencies) : dependencies[k].installed

\* a readiness that is content with one installed dependency
AnyInstalled(dependencies) ==
    \E k \in 1..Len(dependencies) : dependencies[k].installed

\* ready_to_record of check_system_dependencies
ReadyToRecord(dependencies) == AllInstalled(dependencies)

\* check_system_dependencies()
CheckSystemDependencies(e) ==
    LET node_check == CheckCommand(e, "node", <<"--version">>)
        pnpm_check == CheckCommand(e, "pnpm", <<"--version">>)
        ffmpeg_check == CheckCommand(e, "ffmpeg", <<"-version">>)
        browsers_check == CheckPlaywrightBrowsers(e)
        dependencies ==
            << SystemDependency("Node.js", node_check[1], node_check[2], None,
                                Some("https://nodejs.org/")),
               SystemDependency("pnpm", pnpm_check[1], pnpm_check[2],
                                IF pnpm_check[1] THEN None
                                ELSE Some(GetPnpmInstallCommand(e)),
                                Some("https://pnpm.io/installation")),
               SystemDependency("FFmpeg", ffmpeg_check[1],
                                IF ffmpeg_check[2] = None THEN None
                                ELSE Some(<<ffmpeg_check[2][1][1]>>),
                                GetFfmpegInstallCommand(e),
                                Some("https://ffmpeg.org/download.html")),
               SystemDependency("Playwright Browsers", browsers_check[1],
                                browsers_check[2],
                                Some("pnpm exec playwright install"),
                                Some("https://playwright.dev/docs/intro")) >>
    IN [dependencies |-> dependencies,
        ready_to_record |-> ReadyToRecord(dependencies),
        project_path |-> GetProjectRootPath(e)]

\* ------------------------------------------------------------------------
\* The environments the model draws
\* ------------------------------------------------------------------------
Platforms == {"macos", "windows", "linux"}
Commands == {"node", "pnpm", "ffmpeg", "npx"}
CellarPaths == {"/usr/local/Cellar/ffmpeg", "/opt/homebrew/Cellar/ffmpeg"}

\* the version query check_system_dependencies passes for a command
VersionArgs(command) ==
    IF command = "ffmpeg" THEN <<"-version">> ELSE <<"--version">>

\* an environment with nothing installed and no variable set
BaseEnv(platform) ==
    [platform |-> platform,
     PATH |-> None, HOME |-> None, APPDATA |-> None, USERPROFILE |-> None,
     ProgramData |-> None,
     nvmVersions |-> None,
     cellar |-> [c \in CellarPaths |-> None],
     files |-> {}, dirs |-> {},
     which |-> [c \in {} |-> 0],
     shell |-> [c \in {} |-> 0],
     exec |-> [c \in {} |-> 0],
     brew |-> NotRun,
     cwd |-> Some(<<"proj", "gui">>), srcDirs |-> {}, pkgDirs |-> {},
     cacheEntries |-> None,
     readDir |-> [c \in {} |-> 0]]

\* what a program that exits with zero prints, in four styles
Prints(style, id) ==
    CASE style = "plain" ->
           Output(TRUE, TRUE, <<"version " \o id, "built with gcc">>, <<>>)
      [] style = "padded" ->
           Output(TRUE, TRUE, <<"", "version " \o id, "">>, <<>>)
      [] style = "stderr" ->
           Output(TRUE, TRUE, <<>>, <<"version " \o id>>)
      [] OTHER -> Output(TRUE, TRUE, <<>>, <<>>)

Styles == {"plain", "padded", "stderr", "silent"}
Fails == Output(TRUE, FALSE, <<>>, <<"error">>)

RECURSIVE SeqsOfLength(_, _)
SeqsOfLength(S, n) ==
    IF n = 0 THEN {<<>>}
    ELSE {Append(sq, x) : sq \in SeqsOfLength(S, n - 1), x \in S}

PathValues ==
    {None} \cup
    {Some(sq) : sq \in UNION {SeqsOfLength(PathEntries, n) : n \in 1..MaxPathEntries}}

\* environments that differ in PATH, HOME and the version-manager directories
EnvsPaths ==
    { [BaseEnv(pl) EXCEPT
         !.PATH = pv,
         !.HOME = home,
         !.APPDATA = IF rich THEN Some("C:\\Users\\u\\AppData\\Roaming") ELSE None,
         !.USERPROFILE = IF rich THEN Some("C:\\Users\\u") ELSE None,
         !.ProgramData = IF rich THEN Some("C:\\ProgramData") ELSE None,
         !.nvmVersions = IF rich THEN Some(<<"v18.0.0", "v20.1.0">>) ELSE None,
         !.cellar = [c \in CellarPaths |->
                       IF rich /\ c = "/usr/local/Cellar/ffmpeg"
                       THEN Some(<<[name |-> "6.0", is_dir |-> TRUE],
                                   [name |-> ".DS_Store", is_dir |-> FALSE]>>)
                       ELSE None]]
      : pl \in Platforms, pv \in PathValues,
        home \in {None, Some("/home/u"), Some("/usr")}, rich \in BOOLEAN }

\* where the model installs ffmpeg: the first PATH directory, and a directory
\* only the platform list of get_command_search_paths names
FfmpegInPath == "/opt/tools/ffmpeg"
FfmpegWellKnown(platform) ==
    CASE platform = "macos" -> "/opt/homebrew/opt/ffmpeg/bin/ffmpeg"
      [] platform = "windows" -> "C:\\ffmpeg\\bin\\ffmpeg.exe"
      [] OTHER -> "/snap/bin/ffmpeg"

BinKinds == {"missing", "dir", "fails", "works"}

WhichResults ==
    { [success |-> FALSE, stdout |-> Padded("", "", "")],
      [success |-> TRUE, stdout |-> Padded("", "", "\n")],
      [success |-> TRUE, stdout |-> Padded("", FfmpegInPath, "\n")],
      [success |-> TRUE, stdout |-> Padded("", "/elsewhere/ffmpeg", "\n")] }

\* environments that differ in where ffmpeg is and how it answers
EnvsFfmpeg ==
    { LET bins == [p \in {FfmpegInPath, FfmpegWellKnown(pl)} |->
                     IF p = FfmpegInPath THEN k1 ELSE k2]
          runs == {p \in DOMAIN bins : bins[p] \in {"fails", "works"}}
      IN [BaseEnv(pl) EXCEPT
            !.PATH = Some(<<Padded("", "/opt/tools", ""), Padded("", "/usr/bin", "")>>),
            !.HOME = Some("/home/u"),
            !.files = runs,
            !.dirs = {p \in DOMAIN bins : bins[p] = "dir"},
            !.which = [c \in {"ffmpeg"} |-> w],
            !.shell = [c \in {<<"ffmpeg", <<"-version">>>>} |->
                         IF shellOk THEN Prints(style, "from shell") ELSE Fails],
            !.exec = [c \in {<<p, <<"-version">>>> : p \in runs}
                             \cup (IF bare THEN {<<"ffmpeg", <<"-version">>>>} ELSE {})
                        |-> IF c[1] = "ffmpeg" THEN Prints(style, "bare ffmpeg")
                            ELSE IF bins[c[1]] = "works" THEN Prints(style, c[1])
                            ELSE Fails],
            !.brew = IF brewOk /\ pl = "macos"
                     THEN Prints(style, "from brew") ELSE Fails]
      : pl \in Platforms, k1 \in BinKinds, k2 \in BinKinds, w \in WhichResults,
        shellOk \in BOOLEAN, style \in Styles, bare \in BOOLEAN,
        brewOk \in BOOLEAN }

\* how the model makes Playwright detectable: one of the five checks of
\* check_playwright_browsers, or none
PlaywrightVia == {"none", "pnpm exec", "global", "npx", "project", "cache"}

\* environments that differ in which of the four dependencies answer
EnvsDeps ==
    { [BaseEnv(pl) EXCEPT
         !.PATH = Some(<<Padded("", "/usr/bin", "")>>),
         !.HOME = Some("/home/u"),
         !.files = IF pnpm THEN {"/usr/bin/pnpm"} ELSE {},
         !.which = [c \in (IF pnpm THEN {"pnpm"} ELSE {}) |->
                      [success |-> TRUE, stdout |-> Padded("", "/usr/bin/pnpm", "\n")]],
         !.shell = [c \in (IF node THEN {<<"node", <<"--version">>>>} ELSE {})
                          \cup (IF pnpm THEN {<<"pnpm", <<"--version">>>>} ELSE {})
                          \cup (IF ffmpeg THEN {<<"ffmpeg", <<"-version">>>>} ELSE {})
                          \cup (IF via = "pnpm exec" /\ pnpm
                                THEN {<<"/usr/bin/pnpm", <<"exec", "playwright", "--version">>>>}
                                ELSE {})
                          \cup (IF via = "pnpm exec" /\ ~pnpm
                                THEN {<<"pnpm", <<"exec", "playwright", "--version">>>>}
                                ELSE {})
                          \cup (IF via = "global"
                                THEN {<<"playwright", <<"--version">>>>} ELSE {})
                          \cup (IF via = "npx"
                                THEN {<<"npx", <<"playwright", "--version">>>>} ELSE {})
                      |-> Prints("plain", c[1])],
         !.exec = [c \in (IF via = "project"
                          THEN {<<"/proj/node_modules/.bin/playwright", <<"--version">>>>}
                          ELSE {})
                      |-> Prints("plain", c[1])],
         !.srcDirs = {<<"proj">>},
         !.pkgDirs = {<<"proj">>},
         !.cacheEntries = IF via = "cache" THEN Some(2) ELSE Some(0)]
      : pl \in Platforms, node \in BOOLEAN, pnpm \in BOOLEAN, ffmpeg \in BOOLEAN,
        via \in PlaywrightVia }

Envs == EnvsPaths \cup EnvsFfmpeg \cup EnvsDeps

\* a machine where the four dependencies answer, started in the project
\* root, whose recordings directory holds two recordings, an entry that
\* cannot be read and an entry whose name is not valid UTF-8
ReadyEnv ==
    [BaseEnv("linux") EXCEPT
       !.PATH = Some(<<Padded("", "/usr/bin", "")>>),
       !.HOME = Some("/home/u"),
       !.shell = [c \in {<<"node", <<"--version">>>>, <<"pnpm", <<"--version">>>>,
                         <<"ffmpeg", <<"-version">>>>,
                         <<"playwright", <<"--version">>>>}
                    |-> Prints("plain", c[1])],
       !.cwd = Some(<<"proj">>),
       !.srcDirs = {<<"proj">>},
       !.pkgDirs = {<<"proj">>},
       !.readDir = [c \in {"/proj/recordings"} |->
                      <<DirEntry(TRUE, Some("flow-1700000000000.mp4")),
                        DirEntry(FALSE, None),
                        DirEntry(TRUE, None),
                        DirEntry(TRUE, Some("frames-1700000000001"))>>]]

\* the machines the application is run on together with its sessions
AppEnvs == {BaseEnv("linux"), ReadyEnv}

\* ------------------------------------------------------------------------
\* State of the session manager
\* ------------------------------------------------------------------------
VARIABLES
    registry,   \* keys of ACTIVE_RECORDINGS
    child,      \* state of the recorder process of each session id
    poisoned,   \* the ACTIVE_RECORDINGS mutex is poisoned
    clockOk,    \* SystemTime::now() is not before UNIX_EPOCH
    nextId,     \* next session id Uuid::new_v4() yields
    spawned,    \* start_recording calls between cmd.spawn() and lock()
    calls,      \* number of commands invoked so far
    ret,        \* value returned by the last completed command
    hist,       \* per session id, the spawn of its recorder and the outcomes
                \* of the commands completed on it, in order
    holder,     \* the task that holds the guard of ACTIVE_RECORDINGS, if any
    task        \* per task, the command it runs and its position in it

sessionVars == <<registry, child, poisoned, clockOk, nextId, spawned, calls, ret, hist>>
lockVars == <<holder, task>>

\* tasks of the async runtime that run commands side by side
MaxTasks == 2
Tasks == 1..MaxTasks

\* a task that runs no command
Idle == [op |-> "none", id |-> 0, pc |-> "idle"]

\* error strings of the handlers
ErrCurrentDir == "Failed to get current directory"
ErrProjectRoot == "Failed to find project root"
ErrCreateDir == "Failed to create recordings directory"
ErrSpawn == "Failed to start recording process"
ErrKill == "Failed to stop recording process"
ErrNotFound == "Recording session not found"
ErrLock == "Failed to access recording sessions"

\* a Result<RecordingSession, String> (or Result<(), String>) as the caller
\* sees it; kind "Panic" is a handler that unwound instead of returning
Result(op, id, kind, status, error, output_path) ==
    [op |-> op, id |-> id, kind |-> kind, status |-> status,
     error |-> error, output_path |-> output_path]

NoResult == Result("none", 0, "Ok", "", None, None)

Record(id, outcome) == [hist EXCEPT ![id] = Append(@, outcome)]

SessionInit ==
    /\ registry = {}
    /\ child = [i \in SessionIds |-> "none"]
    /\ poisoned = FALSE
    /\ clockOk = TRUE
    /\ nextId = 1
    /\ spawned = {}
    /\ calls = 0
    /\ ret = NoResult
    /\ hist = [i \in SessionIds |-> <<>>]
    /\ holder = None
    /\ task = [t \in Tasks |-> Idle]

\* the outcomes of current_dir() and create_dir_all() under which one of the
\* `?` of start_recording returns Err
StartFails(cwd, mkdirOk) ==
    \/ cwd = None
    \/ StartProjectRoot(cwd[1]) = None
    \/ ~mkdirOk

\* what a start_recording call draws from its environment: the result of
\* current_dir(), of create_dir_all() and of spawn(); a call that has
\* returned draws no further outcome
StartOutcomes ==
    ({None} \cup {Some(w) : w \in WorkingDirs}) \X BOOLEAN \X BOOLEAN

StartDraws ==
    StartOutcomes \ { d \in StartOutcomes : (StartFails(d[1], TRUE) /\ d[2])
                                             \/ (~d[2] /\ d[3]) }

\* StartRecording that registers the session before it knows the spawn result
StartRecordingEagerInsert(cwd, mkdirOk, spawnOk) ==
    /\ nextId \in SessionIds
    /\ calls < MaxCalls
    /\ calls' = calls + 1
    /\ UNCHANGED <<proberVars, lockVars>>
    /\ nextId' = nextId + 1
    /\ UNCHANGED <<poisoned, clockOk>>
    /\ LET id == nextId
           root == IF cwd = None THEN None ELSE StartProjectRoot(cwd[1])
       IN
       IF cwd = None \/ root = None \/ ~mkdirOk
       THEN /\ ret' = Result("start_recording", id, "Err", "", Some(ErrCreateDir), None)
            /\ hist' = Record(id, "start:err")
            /\ UNCHANGED <<registry, child, spawned>>
       ELSE IF ~spawnOk
       THEN /\ ret' = Result("start_recording", id, "Ok", "failed", Some(ErrSpawn), None)
            /\ hist' = Record(id, "start:failed")
            /\ registry' = registry \cup {id}
            /\ UNCHANGED <<child, spawned>>
       ELSE /\ child' = [child EXCEPT ![id] = "running"]
            /\ spawned' = spawned \cup {id}
            /\ hist' = Record(id, "start:spawned")
            /\ UNCHANGED <<registry, ret>>

\* StartRecording that reports every failure in the returned record
StartRecordingNeverErr(cwd, mkdirOk, spawnOk) ==
    /\ nextId \in SessionIds
    /\ calls < MaxCalls
    /\ calls' = calls + 1
    /\ UNCHANGED <<proberVars, lockVars>>
    /\ nextId' = nextId + 1
    /\ UNCHANGED <<registry, poisoned, clockOk>>
    /\ LET id == nextId
           root == IF cwd = None THEN None ELSE StartProjectRoot(cwd[1])
       IN
       IF cwd = None \/ root = None \/ ~mkdirOk \/ ~spawnOk
       THEN /\ ret' = Result("start_recording", id, "Ok", "failed", Some(ErrSpawn), None)
            /\ hist' = Record(id, "start:failed")
            /\ UNCHANGED <<child, spawned>>
       ELSE /\ child' = [child EXCEPT ![id] = "running"]
            /\ spawned' = spawned \cup {id}
            /\ hist' = Record(id, "start:spawned")
            /\ UNCHANGED ret

\* start_recording up to and including cmd.spawn()
StartRecording(cwd, mkdirOk, spawnOk) ==
    /\ nextId \in SessionIds
    /\ calls < MaxCalls
    /\ calls' = calls + 1
    /\ UNCHANGED <<proberVars, lockVars>>
    /\ nextId' = nextId + 1
    /\ UNCHANGED <<registry, poisoned, clockOk>>
    /\ LET id == nextId
           root == IF cwd = None THEN None ELSE StartProjectRoot(cwd[1])
       IN
       IF ~clockOk
       THEN \* duration_since(UNIX_EPOCH).unwrap()
            /\ ret' = Result("start_recording", id, "Panic", "", None, None)
            /\ hist' = Record(id, "start:panic")
            /\ UNCHANGED <<child, spawned>>
       ELSE IF cwd = None
       THEN /\ ret' = Result("start_recording", id, "Err", "", Some(ErrCurrentDir), None)
            /\ hist' = Record(id, "start:err")
            /\ UNCHANGED <<child, spawned>>
       ELSE IF root = None
       THEN /\ ret' = Result("start_recording", id, "Err", "", Some(ErrProjectRoot), None)
            /\ hist' = Record(id, "start:err")
            /\ UNCHANGED <<child, spawned>>
       ELSE IF ~mkdirOk
       THEN /\ ret' = Result("start_recording", id, "Err", "", Some(ErrCreateDir), None)
            /\ hist' = Record(id, "start:err")
            /\ UNCHANGED <<child, spawned>>
       ELSE IF ~spawnOk
       THEN /\ ret' = Result("start_recording", id, "Ok", "failed", Some(ErrSpawn), None)
            /\ hist' = Record(id, "start:failed")
            /\ UNCHANGED <<child, spawned>>
       ELSE /\ child' = [child EXCEPT ![id] = "running"]
            /\ spawned' = spawned \cup {id}
            /\ hist' = Record(id, "start:spawned")
            /\ UNCHANGED ret

\* StartRegister that returns 'recording' without inserting the child
StartRegisterNoInsert(id) ==
    /\ id \in spawned
    /\ UNCHANGED <<proberVars, lockVars>>
    /\ spawned' = spawned \ {id}
    /\ registry' = registry
    /\ ret' = Result("start_recording", id, "Ok", "recording", None,
                     Some("recordings"))
    /\ hist' = Record(id, "start:recording")
    /\ UNCHANGED <<child, poisoned, clockOk, nextId, calls>>

\* start_recording from ACTIVE_RECORDINGS.lock() to its return
StartRegister(id) ==
    /\ id \in spawned
    /\ UNCHANGED <<proberVars, lockVars>>
    /\ spawned' = spawned \ {id}
    /\ registry' = IF poisoned THEN registry ELSE registry \cup {id}
    /\ ret' = Result("start_recording", id, "Ok", "recording", None,
                     Some("recordings"))
    /\ hist' = Record(id, "start:recording")
    /\ UNCHANGED <<child, poisoned, clockOk, nextId, calls>>

\* StopRecording that takes the session out of the registry only when the
\* kill was delivered
StopRecordingKeepsOnKillFailure(id, killOk) ==
    /\ calls < MaxCalls
    /\ UNCHANGED <<proberVars, lockVars>>
    /\ calls' = calls + 1
    /\ UNCHANGED <<poisoned, clockOk, nextId, spawned>>
    /\ IF poisoned
       THEN /\ ret' = Result("stop_recording", id, "Err", "", Some(ErrLock), None)
            /\ hist' = Record(id, "stop:lock")
            /\ UNCHANGED <<registry, child>>
       ELSE IF id \in registry
       THEN IF killOk
            THEN /\ registry' = registry \ {id}
                 /\ child' = [child EXCEPT ![id] = "killed"]
                 /\ ret' = Result("stop_recording", id, "Ok", "", None, None)
                 /\ hist' = Record(id, "stop:ok")
            ELSE /\ UNCHANGED <<registry, child>>
                 /\ ret' = Result("stop_recording", id, "Err", "", Some(ErrKill), None)
                 /\ hist' = Record(id, "stop:killfailed")
       ELSE /\ ret' = Result("stop_recording", id, "Err", "", Some(ErrNotFound), None)
            /\ hist' = Record(id, "stop:notfound")
            /\ UNCHANGED <<registry, child>>

\* StopRecording that also cancels a start whose recorder is spawned but not
\* yet registered
StopRecordingCancelsStart(id, killOk) ==
    /\ calls < MaxCalls
    /\ UNCHANGED <<proberVars, lockVars>>
    /\ calls' = calls + 1
    /\ UNCHANGED <<poisoned, clockOk, nextId>>
    /\ IF poisoned
       THEN /\ ret' = Result("stop_recording", id, "Err", "", Some(ErrLock), None)
            /\ hist' = Record(id, "stop:lock")
            /\ UNCHANGED <<registry, child, spawned>>
       ELSE IF id \in registry
       THEN /\ registry' = registry \ {id}
            /\ spawned' = spawned
            /\ IF killOk
               THEN /\ child' = [child EXCEPT ![id] = "killed"]
                    /\ ret' = Result("stop_recording", id, "Ok", "", None, None)
                    /\ hist' = Record(id, "stop:ok")
               ELSE /\ child' = child
                    /\ ret' = Result("stop_recording", id, "Err", "", Some(ErrKill), None)
                    /\ hist' = Record(id, "stop:killfailed")
       ELSE IF id \in spawned
       THEN /\ spawned' = spawned \ {id}
            /\ child' = [child EXCEPT ![id] = "killed"]
            /\ ret' = Result("stop_recording", id, "Ok", "", None, None)
            /\ hist' = Record(id, "stop:ok")
            /\ registry' = registry
       ELSE /\ ret' = Result("stop_recording", id, "Err", "", Some(ErrNotFound), None)
            /\ hist' = Record(id, "stop:notfound")
            /\ UNCHANGED <<registry, child, spawned>>

\* StopRecording that treats a missing session as already stopped
StopRecordingMissingOk(id, killOk) ==
    /\ calls < MaxCalls
    /\ UNCHANGED <<proberVars, lockVars>>
    /\ calls' = calls + 1
    /\ UNCHANGED <<poisoned, clockOk, nextId, spawned>>
    /\ IF poisoned
       THEN /\ ret' = Result("stop_recording", id, "Err", "", Some(ErrLock), None)
            /\ hist' = Record(id, "stop:lock")
            /\ UNCHANGED <<registry, child>>
       ELSE IF id \in registry
       THEN /\ registry' = registry \ {id}
            /\ IF killOk
               THEN /\ child' = [child EXCEPT ![id] = "killed"]
                    /\ ret' = Result("stop_recording", id, "Ok", "", None, None)
                    /\ hist' = Record(id, "stop:ok")
               ELSE /\ child' = child
                    /\ ret' = Result("stop_recording", id, "Err", "", Some(ErrKill), None)
                    /\ hist' = Record(id, "stop:killfailed")
       ELSE /\ ret' = Result("stop_recording", id, "Ok", "", None, None)
            /\ hist' = Record(id, "stop:ok")
            /\ UNCHANGED <<registry, child>>

\* stop_recording(session_id)
StopRecording(id, killOk) ==
    /\ calls < MaxCalls
    /\ UNCHANGED <<proberVars, lockVars>>
    /\ calls' = calls + 1
    /\ UNCHANGED <<poisoned, clockOk, nextId, spawned>>
    /\ IF poisoned
       THEN /\ ret' = Result("stop_recording", id, "Err", "", Some(ErrLock), None)
            /\ hist' = Record(id, "stop:lock")
            /\ UNCHANGED <<registry, child>>
       ELSE IF id \in registry
       THEN /\ registry' = registry \ {id}
            /\ IF killOk
               THEN /\ child' = [child EXCEPT ![id] = "killed"]
                    /\ ret' = Result("stop_recording", id, "Ok", "", None, None)
                    /\ hist' = Record(id, "stop:ok")
               ELSE /\ child' = child
                    /\ ret' = Result("stop_recording", id, "Err", "", Some(ErrKill), None)
                    /\ hist' = Record(id, "stop:killfailed")
       ELSE /\ ret' = Result("stop_recording", id, "Err", "", Some(ErrNotFound), None)
            /\ hist' = Record(id, "stop:notfound")
            /\ UNCHANGED <<registry, child>>

\* GetRecordingStatus that asks the process, not the registry, for liveness
GetRecordingStatusByProcess(id) ==
    /\ calls < MaxCalls
    /\ UNCHANGED <<proberVars, lockVars>>
    /\ calls' = calls + 1
    /\ UNCHANGED <<registry, child, clockOk, nextId, spawned, poisoned>>
    /\ IF child[id] = "running"
       THEN /\ ret' = Result("get_recording_status", id, "Ok", "recording", None, None)
            /\ hist' = Record(id, "status:recording")
       ELSE /\ ret' = Result("get_recording_status", id, "Ok", "completed", None, None)
            /\ hist' = Record(id, "status:completed")

\* get_recording_status(session_id)
GetRecordingStatus(id) ==
    /\ calls < MaxCalls
    /\ UNCHANGED <<proberVars, lockVars>>
    /\ calls' = calls + 1
    /\ UNCHANGED <<registry, child, clockOk, nextId, spawned>>
    /\ IF ~poisoned /\ id \in registry
       THEN IF clockOk
            THEN /\ ret' = Result("get_recording_status", id, "Ok", "recording", None, None)
                 /\ hist' = Record(id, "status:recording")
                 /\ poisoned' = poisoned
            ELSE \* unwrap() panics while the guard is alive: the mutex is poisoned
                 /\ ret' = Result("get_recording_status", id, "Panic", "", None, None)
                 /\ hist' = Record(id, "status:panic")
                 /\ poisoned' = TRUE
       ELSE /\ ret' = Result("get_recording_status", id, "Ok", "completed", None, None)
            /\ hist' = Record(id, "status:completed")
            /\ poisoned' = poisoned

\* a process exit that also takes the session out of the registry
ProcessExitReaps(id) ==
    /\ child[id] = "running"
    /\ UNCHANGED <<proberVars, lockVars>>
    /\ child' = [child EXCEPT ![id] = "exited"]
    /\ registry' = registry \ {id}
    /\ UNCHANGED <<poisoned, clockOk, nextId, spawned, calls, ret, hist>>

\* the recorder process ends on its own
ProcessExit(id) ==
    /\ child[id] = "running"
    /\ UNCHANGED <<proberVars, lockVars>>
    /\ child' = [child EXCEPT ![id] = "exited"]
    /\ UNCHANGED <<registry, poisoned, clockOk, nextId, spawned, calls, ret, hist>>

\* the system clock is set before or after the Unix epoch
ClockChange ==
    /\ clockOk' = ~clockOk
    /\ UNCHANGED <<proberVars, lockVars>>
    /\ UNCHANGED <<registry, child, poisoned, nextId, spawned, calls, ret, hist>>

vars == <<sessionVars, proberVars, lockVars>>

NoOutput == [op |-> "none", command |-> "", value |-> <<>>]

\* the prober is not called
ProberIdle ==
    /\ env = BaseEnv("linux")
    /\ out = NoOutput

Init == SessionInit /\ ProberIdle

Next ==
    \/ \E d \in StartDraws : StartRecording(d[1], d[2], d[3])
    \/ \E id \in SessionIds : StartRegister(id)
    \/ \E id \in SessionIds, killOk \in BOOLEAN : StopRecording(id, killOk)
    \/ \E id \in SessionIds : GetRecordingStatus(id)
    \/ \E id \in SessionIds : ProcessExit(id)

Spec == Init /\ [][Next]_vars

\* ------------------------------------------------------------------------
\* Calls of the dependency prober in a drawn environment
\* ------------------------------------------------------------------------
CallGetCommandSearchPaths(command) ==
    /\ out' = [op |-> "get_command_search_paths", command |-> command,
               value |-> GetCommandSearchPaths(env, command)]
    /\ UNCHANGED <<env, sessionVars, lockVars>>

CallFindCommandPath(command) ==
    /\ out' = [op |-> "find_command_path", command |-> command,
               value |-> FindCommandPath(env, command)]
    /\ UNCHANGED <<env, sessionVars, lockVars>>

CallCheckCommand(command) ==
    /\ out' = [op |-> "check_command", command |-> command,
               value |-> CheckCommand(env, command, VersionArgs(command))]
    /\ UNCHANGED <<env, sessionVars, lockVars>>

CallCheckSystemDependencies ==
    /\ out' = [op |-> "check_system_dependencies", command |-> "",
               value |-> CheckSystemDependencies(env)]
    /\ UNCHANGED <<env, sessionVars, lockVars>>

ProberInit ==
    /\ SessionInit
    /\ env \in Envs
    /\ out = NoOutput

ProberNext ==
    \/ \E command \in Commands : CallGetCommandSearchPaths(command)
    \/ \E command \in Commands : CallFindCommandPath(command)
    \/ \E command \in Commands : CallCheckCommand(command)
    \/ CallCheckSystemDependencies

SpecProber == ProberInit /\ [][ProberNext]_vars

\* the same program where the system clock may be set before the Unix epoch
SpecClock == Init /\ [][Next \/ ClockChange]_vars

\* the session commands together with the dependency check and the listing,
\* on one of the machines of AppEnvs
AppInit ==
    /\ SessionInit
    /\ env \in AppEnvs
    /\ out = NoOutput

\* a check_system_dependencies whose probes answer only the first time
CheckSystemDependenciesCommandOnce ==
    /\ calls < MaxCalls
    /\ calls' = calls + 1
    /\ out' = [op |-> "check_system_dependencies", command |-> "",
               value |-> IF out.op = "check_system_dependencies"
                         THEN CheckSystemDependencies(BaseEnv(env.platform))
                         ELSE CheckSystemDependencies(env)]
    /\ UNCHANGED <<env, lockVars, registry, child, poisoned, clockOk, nextId, spawned,
                   ret, hist>>

\* the command check_system_dependencies, invoked among the session commands
CheckSystemDependenciesCommand ==
    /\ calls < MaxCalls
    /\ calls' = calls + 1
    /\ out' = [op |-> "check_system_dependencies", command |-> "",
               value |-> CheckSystemDependencies(env)]
    /\ UNCHANGED <<env, lockVars, registry, child, poisoned, clockOk, nextId, spawned,
                   ret, hist>>

\* the command list_recordings, invoked among the session commands
ListRecordingsCommand ==
    /\ calls < MaxCalls
    /\ calls' = calls + 1
    /\ out' = [op |-> "list_recordings", command |-> "",
               value |-> ListRecordings(env)]
    /\ UNCHANGED <<env, lockVars, registry, child, poisoned, clockOk, nextId, spawned,
                   ret, hist>>

\* start_recording reads the working directory of the machine
AppNext ==
    \/ \E d \in StartDraws : d[1] = env.cwd /\ StartRecording(d[1], d[2], d[3])
    \/ \E id \in SessionIds : StartRegister(id)
    \/ \E id \in SessionIds, killOk \in BOOLEAN : StopRecording(id, killOk)
    \/ \E id \in SessionIds : GetRecordingStatus(id)
    \/ \E id \in SessionIds : ProcessExit(id)
    \/ CheckSystemDependenciesCommand
    \/ ListRecordingsCommand

SpecApp == AppInit /\ [][AppNext]_vars

\* ------------------------------------------------------------------------
\* The command line and the output name start_recording derives from the
\* options of a request
\* ------------------------------------------------------------------------
\* pieces of a URL
MaxUrlPieces == 3

UrlPieces == {"/", "?", "abc", "long-segment", "FarsiLang"}

Urls == UNION {SeqsOfLength(UrlPieces, n) : n \in 0..MaxUrlPieces}

\* SystemTime::now() in milliseconds since the Unix epoch
Timestamps == {7, 1234}

\* the requests the model draws for the argument vector
OptionsDrawn ==
    { RecordingOptions(figma_url, recording_mode, quality, custom_width,
                       custom_height, duration, format, frame_rate,
                       wait_for_canvas)
      : figma_url \in {<<"abc">>, <<"abc", "/", "long-segment", "?", "abc">>},
        recording_mode \in {"video", "frames"},
        quality \in {"high", "low"},
        custom_width \in {None, Some(1920)},
        custom_height \in {None, Some(1080)},
        duration \in {None, Some(10)},
        format \in {"mp4", "webm"},
        frame_rate \in {None, Some(30)},
        wait_for_canvas \in BOOLEAN }

\* start_recording builds the argument vector of a request
CallRecorderArgs(options) ==
    /\ out' = [op |-> "recorder_args", command |-> "",
               value |-> [options |-> options, args |-> RecorderArgs(options)]]
    /\ UNCHANGED <<env, sessionVars, lockVars>>

\* start_recording derives the output name of a request
CallOutputName(figma_url, timestamp) ==
    /\ out' = [op |-> "output_name", command |-> "",
               value |-> [figma_url |-> figma_url, timestamp |-> timestamp,
                          output_name |-> OutputName(figma_url, timestamp)]]
    /\ UNCHANGED <<env, sessionVars, lockVars>>

PlanNext ==
    \/ \E options \in OptionsDrawn : CallRecorderArgs(options)
    \/ \E figma_url \in Urls, timestamp \in Timestamps :
          CallOutputName(figma_url, timestamp)

SpecPlan == Init /\ [][PlanNext]_vars

\* ------------------------------------------------------------------------
\* The three session commands step by step: each task runs one command at a
\* time and the guard of ACTIVE_RECORDINGS is taken and dropped where the
\* handlers take and drop it (the system clock is sane, so no handler
\* panics and the mutex is never poisoned)
\* ------------------------------------------------------------------------
At(t, op, pc) == task[t].op = op /\ task[t].pc = pc

Goto(t, op, id, pc) == [task EXCEPT ![t] = [op |-> op, id |-> id, pc |-> pc]]

Return(t) == [task EXCEPT ![t] = Idle]

\* the results of current_dir() and create_dir_all() a start_recording draws
StartEntryDraws == {<<d[1], d[2]>> : d \in StartDraws}

\* start_recording from its entry to the point before cmd.spawn()
StartRecordingEnter(t, cwd, mkdirOk) ==
    /\ task[t] = Idle
    /\ nextId \in SessionIds
    /\ calls < MaxCalls
    /\ calls' = calls + 1
    /\ nextId' = nextId + 1
    /\ UNCHANGED <<proberVars, registry, child, poisoned, clockOk, spawned, holder>>
    /\ LET id == nextId IN
       IF StartFails(cwd, mkdirOk)
       THEN /\ ret' = Result("start_recording", id, "Err", "",
                             Some(IF cwd = None THEN ErrCurrentDir
                                  ELSE IF StartProjectRoot(cwd[1]) = None
                                       THEN ErrProjectRoot
                                       ELSE ErrCreateDir), None)
            /\ hist' = Record(id, "start:err")
            /\ task' = task
       ELSE /\ task' = Goto(t, "start_recording", id, "spawn")
            /\ UNCHANGED <<ret, hist>>

\* cmd.spawn() of start_recording
StartRecordingSpawn(t, spawnOk) ==
    /\ At(t, "start_recording", "spawn")
    /\ UNCHANGED <<proberVars, registry, poisoned, clockOk, nextId, calls, holder>>
    /\ LET id == task[t].id IN
       IF spawnOk
       THEN /\ child' = [child EXCEPT ![id] = "running"]
            /\ spawned' = spawned \cup {id}
            /\ hist' = Record(id, "start:spawned")
            /\ task' = Goto(t, "start_recording", id, "lock")
            /\ ret' = ret
       ELSE /\ ret' = Result("start_recording", id, "Ok", "failed", Some(ErrSpawn), None)
            /\ hist' = Record(id, "start:failed")
            /\ task' = Return(t)
            /\ UNCHANGED <<child, spawned>>

\* ACTIVE_RECORDINGS.lock() of any of the three handlers: the task waits
\* until no other task holds the guard
AcquireLock(t) ==
    /\ task[t].pc = "lock"
    /\ holder = None
    /\ holder' = Some(t)
    /\ task' = [task EXCEPT ![t].pc = "locked"]
    /\ UNCHANGED <<proberVars, sessionVars>>

\* recordings.insert(), the end of the guard's block and the return of
\* start_recording
StartRecordingInsert(t) ==
    /\ At(t, "start_recording", "locked")
    /\ holder = Some(t)
    /\ LET id == task[t].id IN
       /\ registry' = registry \cup {id}
       /\ spawned' = spawned \ {id}
       /\ ret' = Result("start_recording", id, "Ok", "recording", None,
                        Some("recordings"))
       /\ hist' = Record(id, "start:recording")
    /\ holder' = None
    /\ task' = Return(t)
    /\ UNCHANGED <<proberVars, child, poisoned, clockOk, nextId, calls>>

\* stop_recording from its entry to ACTIVE_RECORDINGS.lock()
StopRecordingEnter(t, id) ==
    /\ task[t] = Idle
    /\ calls < MaxCalls
    /\ calls' = calls + 1
    /\ task' = Goto(t, "stop_recording", id, "lock")
    /\ UNCHANGED <<proberVars, registry, child, poisoned, clockOk, nextId,
                   spawned, ret, hist, holder>>

\* recordings.remove(&session_id) of stop_recording: with no entry the
\* handler returns and the guard is dropped; with an entry the guard stays
\* alive, its block goes on with child.kill()
StopRecordingRemove(t) ==
    /\ At(t, "stop_recording", "locked")
    /\ holder = Some(t)
    /\ UNCHANGED <<proberVars, child, poisoned, clockOk, nextId, spawned, calls>>
    /\ LET id == task[t].id IN
       IF id \in registry
       THEN /\ registry' = registry \ {id}
            /\ task' = Goto(t, "stop_recording", id, "kill")
            /\ UNCHANGED <<holder, ret, hist>>
       ELSE /\ ret' = Result("stop_recording", id, "Err", "", Some(ErrNotFound), None)
            /\ hist' = Record(id, "stop:notfound")
            /\ holder' = None
            /\ task' = Return(t)
            /\ registry' = registry

\* child.kill() of stop_recording, then the end of the guard's block and
\* the return
StopRecordingKill(t, killOk) ==
    /\ At(t, "stop_recording", "kill")
    /\ UNCHANGED <<proberVars, registry, poisoned, clockOk, nextId, spawned, calls>>
    /\ LET id == task[t].id IN
       IF killOk
       THEN /\ child' = [child EXCEPT ![id] = "killed"]
            /\ ret' = Result("stop_recording", id, "Ok", "", None, None)
            /\ hist' = Record(id, "stop:ok")
       ELSE /\ child' = child
            /\ ret' = Result("stop_recording", id, "Err", "", Some(ErrKill), None)
            /\ hist' = Record(id, "stop:killfailed")
    /\ holder' = None
    /\ task' = Return(t)

\* get_recording_status from its entry to ACTIVE_RECORDINGS.lock()
GetRecordingStatusEnter(t, id) ==
    /\ task[t] = Idle
    /\ calls < MaxCalls
    /\ calls' = calls + 1
    /\ task' = Goto(t, "get_recording_status", id, "lock")
    /\ UNCHANGED <<proberVars, registry, child, poisoned, clockOk, nextId,
                   spawned, ret, hist, holder>>

\* recordings.contains_key(&session_id) of get_recording_status and its
\* return
GetRecordingStatusCheck(t) ==
    /\ At(t, "get_recording_status", "locked")
    /\ holder = Some(t)
    /\ LET id == task[t].id IN
       IF id \in registry
       THEN /\ ret' = Result("get_recording_status", id, "Ok", "recording", None, None)
            /\ hist' = Record(id, "status:recording")
       ELSE /\ ret' = Result("get_recording_status", id, "Ok", "completed", None, None)
            /\ hist' = Record(id, "status:completed")
    /\ holder' = None
    /\ task' = Return(t)
    /\ UNCHANGED <<proberVars, registry, child, poisoned, clockOk, nextId,
                   spawned, calls>>

LockNext ==
    \/ \E t \in Tasks, d \in StartEntryDraws : StartRecordingEnter(t, d[1], d[2])
    \/ \E t \in Tasks, spawnOk \in BOOLEAN : StartRecordingSpawn(t, spawnOk)
    \/ \E t \in Tasks : AcquireLock(t)
    \/ \E t \in Tasks : StartRecordingInsert(t)
    \/ \E t \in Tasks, id \in SessionIds : StopRecordingEnter(t, id)
    \/ \E t \in Tasks : StopRecordingRemove(t)
    \/ \E t \in Tasks, killOk \in BOOLEAN : StopRecordingKill(t, killOk)
    \/ \E t \in Tasks, id \in SessionIds : GetRecordingStatusEnter(t, id)
    \/ \E t \in Tasks : GetRecordingStatusCheck(t)
    \/ \E id \in SessionIds : ProcessExit(id)

SpecLock == Init /\ [][LockNext]_vars

\* ------------------------------------------------------------------------
\* The project root and the recordings directory, on machines that differ in
\* the working directory and in the directories that hold `src` and
\* `package.json`
\* ------------------------------------------------------------------------
\* the directories that may hold the markers
RootDirs == {<<>>, <<"proj">>, <<"proj", "gui">>, <<"proj", "gui", "src-tauri">>}

RootEnv(cwd, srcDirs, pkgDirs) ==
    [BaseEnv("linux") EXCEPT !.cwd = cwd, !.srcDirs = srcDirs, !.pkgDirs = pkgDirs]

RootEnvs ==
    {RootEnv(cwd, srcDirs, pkgDirs) :
        cwd \in {None} \cup {Some(w) : w \in WorkingDirs},
        srcDirs \in SUBSET RootDirs, pkgDirs \in SUBSET RootDirs}

\* recordings_dir of start_recording: project_root.join("recordings"), None
\* where a `?` before it returns Err
StartRecordingsDir(e) ==
    IF e.cwd = None \/ StartProjectRoot(e.cwd[1]) = None THEN None
    ELSE Some(PathStr(Append(StartProjectRoot(e.cwd[1])[1], "recordings")))

\* recordings_path of list_recordings and of open_recordings_folder
RecordingsPath(e) == GetProjectRootPath(e) \o "/recordings"

CallGetProjectRootPath ==
    /\ out' = [op |-> "get_project_root_path", command |-> "",
               value |-> GetProjectRootPath(env)]
    /\ UNCHANGED <<env, sessionVars, lockVars>>

CallStartRecordingsDir ==
    /\ out' = [op |-> "start_recording", command |-> "",
               value |-> StartRecordingsDir(env)]
    /\ UNCHANGED <<env, sessionVars, lockVars>>

CallRecordingsPath ==
    /\ out' = [op |-> "list_recordings", command |-> "",
               value |-> RecordingsPath(env)]
    /\ UNCHANGED <<env, sessionVars, lockVars>>

RootsInit ==
    /\ SessionInit
    /\ env \in RootEnvs
    /\ out = NoOutput

RootsNext ==
    \/ CallGetProjectRootPath
    \/ CallStartRecordingsDir
    \/ CallRecordingsPath

SpecRoots == RootsInit /\ [][RootsNext]_vars

\* ------------------------------------------------------------------------
\* Session manager: properties
\* ------------------------------------------------------------------------
StatusOutcomes == {"status:recording", "status:completed", "status:panic"}
StopOutcomes == {"stop:ok", "stop:killfailed", "stop:notfound", "stop:lock"}
Last(h) == h[Len(h)]

\* the command that completed in this step was called for session i (the
\* spawn of a recorder is recorded too, and completes no command)
Completed(i, op) ==
    /\ hist'[i] # hist[i]
    /\ Last(hist'[i]) # "start:spawned"
    /\ ret'.op = op
    /\ ret'.id = i

\* C1 as stated: after a start that returned 'recording' the id is
\* registered, the next status query says 'recording', the next stop removes
\* the id and returns success, and the status query after it says 'completed'.
C1_LifecycleStopSucceeds ==
    \A i \in SessionIds :
        LET h == hist[i] IN
        /\ (h # <<>> /\ Last(h) \in {"start:recording", "status:recording"})
              => i \in registry
        /\ \A k \in 1..(Len(h) - 1) :
              /\ (h[k] = "start:recording" /\ h[k+1] \in StatusOutcomes)
                    => h[k+1] = "status:recording"
              /\ (h[k] \in {"start:recording", "status:recording"}
                    /\ h[k+1] \in StopOutcomes)
                    => (h[k+1] = "stop:ok" /\ (k + 1 = Len(h) => i \notin registry))
              /\ (h[k] = "stop:ok" /\ h[k+1] \in StatusOutcomes)
                    => h[k+1] = "status:completed"

\* C1 (amended): as C1, but the stop that follows removes the id and returns
\* success only when the kill was delivered; when child.kill() fails it
\* removes the id and returns the error 'Failed to stop recording process'.
\* Either way the status query after the stop says 'completed'.
C1_Lifecycle ==
    /\ (ret.op = "start_recording" /\ ret.kind = "Ok" /\ ret.status = "recording")
          => ret.id \in registry
    /\ \A i \in SessionIds :
        LET h == hist[i] IN
        /\ (h # <<>> /\ Last(h) \in {"start:recording", "status:recording"})
              => i \in registry
        /\ \A k \in 1..(Len(h) - 1) :
              /\ (h[k] = "start:recording" /\ h[k+1] \in StatusOutcomes)
                    => h[k+1] = "status:recording"
              /\ (h[k] \in {"start:recording", "status:recording"}
                    /\ h[k+1] \in StopOutcomes)
                    => /\ h[k+1] \in {"stop:ok", "stop:killfailed"}
                       /\ (k + 1 = Len(h) => i \notin registry)
              /\ (h[k] \in {"stop:ok", "stop:killfailed"} /\ h[k+1] \in StatusOutcomes)
                    => h[k+1] = "status:completed"

C1_Witness ==
    \E i \in SessionIds :
        /\ hist[i] = <<"start:spawned", "start:recording", "status:recording", "stop:ok",
                       "status:completed">>
        /\ i \notin registry

\* C2: stop_recording for an id that is not in the registry returns the error
\* 'Recording session not found', does not panic and leaves the registry and
\* the processes as they were; a stop that follows a successful stop of the
\* same id gets this error.
C2_StopUnknown ==
    [][\A i \in SessionIds :
         /\ (Completed(i, "stop_recording") /\ i \notin registry)
               => /\ ret'.kind = "Err"
                  /\ ret'.error = Some(ErrNotFound)
                  /\ registry' = registry
                  /\ child' = child
         /\ (Completed(i, "stop_recording") /\ hist[i] # <<>>
                /\ Last(hist[i]) = "stop:ok")
               => ret'.error = Some(ErrNotFound)
      ]_vars

C2_Witness ==
    \E i \in SessionIds :
        /\ hist[i] = <<"start:spawned", "start:recording", "stop:ok", "stop:notfound">>
        /\ ret.error = Some(ErrNotFound)

\* C3 as stated: start_recording never fails the call itself: whatever the
\* environment does, it returns a RecordingSession record (Ok), and a failure
\* is in the record's status and error.
C3_StartNeverErr ==
    ret.op = "start_recording"
        => /\ ret.kind = "Ok"
           /\ ret.status \in {"recording", "failed"}

\* C3 (amended): start_recording fails the call with an error string when the
\* current directory cannot be read, the project root cannot be derived or the
\* recordings directory cannot be created; only a spawn failure is encoded in
\* a returned record (status 'failed' with an error), and a successful spawn
\* returns a record with status 'recording' and no error.
C3_StartErrOrRecord ==
    [][/\ nextId' # nextId =>
          \A d \in StartDraws :
            LET cwd == d[1]
                mkdirOk == d[2]
                spawnOk == d[3]
            IN
            StartRecording(cwd, mkdirOk, spawnOk) =>
              /\ StartFails(cwd, mkdirOk)
                    => /\ ret'.op = "start_recording"
                       /\ ret'.kind = "Err"
                       /\ ret'.error =
                             Some(IF cwd = None THEN ErrCurrentDir
                                  ELSE IF StartProjectRoot(cwd[1]) = None
                                       THEN ErrProjectRoot
                                       ELSE ErrCreateDir)
                       /\ nextId \notin spawned'
              /\ (~StartFails(cwd, mkdirOk) /\ ~spawnOk)
                    => /\ ret'.op = "start_recording"
                       /\ ret'.kind = "Ok"
                       /\ ret'.status = "failed"
                       /\ ret'.error # None
              /\ (~StartFails(cwd, mkdirOk) /\ spawnOk)
                    => nextId \in spawned'
       /\ spawned' # spawned =>
          \A i \in spawned :
            StartRegister(i) =>
              /\ ret'.op = "start_recording"
              /\ ret'.kind = "Ok"
              /\ ret'.status = "recording"
              /\ ret'.error = None
      ]_vars

C3_Witness ==
    /\ ret.op = "start_recording"
    /\ ret.kind = "Err"
    /\ ret.error = Some(ErrCreateDir)

\* C4: when the recorder cannot be spawned, start_recording returns a record
\* with status 'failed', an error text and no output path; the registry is
\* unchanged, no process exists for the id, the spawn is attempted once, and
\* the id never enters the registry afterwards.
C4_SpawnFailure ==
    [][/\ nextId' # nextId =>
          \A d \in StartDraws :
            (StartRecording(d[1], d[2], FALSE) /\ ~StartFails(d[1], d[2]))
              => /\ ret' = Result("start_recording", nextId, "Ok", "failed",
                                  Some(ErrSpawn), None)
                 /\ registry' = registry
                 /\ spawned' = spawned
                 /\ child' = child
                 /\ hist'[nextId] = Append(hist[nextId], "start:failed")
       /\ \A i \in SessionIds :
            (\E k \in 1..Len(hist[i]) : hist[i][k] = "start:failed")
              => /\ i \notin registry'
                 /\ i \notin spawned'
                 /\ child'[i] = "none"
      ]_vars

C4_Witness ==
    \E i \in SessionIds :
        /\ hist[i] = <<"start:failed", "status:completed">>
        /\ i \notin registry
        /\ registry # {}

\* C5: get_recording_status(id) returns Ok with status 'recording' exactly
\* when id is in the registry at the call and 'completed' when it is absent
\* (never started, start failed, stopped); it never returns an error and
\* never changes the registry.
C5_StatusByRegistry ==
    [][\A i \in SessionIds :
         Completed(i, "get_recording_status")
           => /\ ret'.kind = "Ok"
              /\ ret'.error = None
              /\ (i \in registry => ret'.status = "recording")
              /\ (i \notin registry => ret'.status = "completed")
              /\ registry' = registry
      ]_vars

C5_Witness ==
    /\ \E i \in SessionIds :
          /\ hist[i] = <<"status:completed">>
          /\ i >= nextId
    /\ \E i \in SessionIds :
          /\ hist[i] = <<"start:spawned", "start:recording", "status:recording">>
          /\ child[i] = "exited"

\* C6 as stated: an operation that could not acquire the registry lock
\* returns an error; it never reports 'recording' or 'completed'.
C6_LockFailureSurfaced ==
    [][\A i \in SessionIds :
         (poisoned /\ hist'[i] # hist[i]
            /\ Last(hist'[i]) \notin {"start:err", "start:failed", "start:panic",
                                       "start:spawned"})
           => (ret'.kind = "Err" /\ ret'.status \notin {"recording", "completed"})
      ]_vars

\* ------------------------------------------------------------------------
\* Dependency prober: properties
\* ------------------------------------------------------------------------
\* C7: ready_to_record of check_system_dependencies is true exactly when all
\* four entries - Node.js, pnpm, FFmpeg, Playwright Browsers, in this order,
\* each carrying the verdict of its probe - have installed = true.
C7_ReadyIffAllInstalled ==
    out.op = "check_system_dependencies" =>
        LET d == out.value.dependencies IN
        /\ Len(d) = 4
        /\ <<d[1].name, d[2].name, d[3].name, d[4].name>>
             = <<"Node.js", "pnpm", "FFmpeg", "Playwright Browsers">>
        /\ d[1].installed = CheckCommand(env, "node", <<"--version">>)[1]
        /\ d[2].installed = CheckCommand(env, "pnpm", <<"--version">>)[1]
        /\ d[3].installed = CheckCommand(env, "ffmpeg", <<"-version">>)[1]
        /\ d[4].installed = CheckPlaywrightBrowsers(env)[1]
        /\ out.value.ready_to_record
             = (d[1].installed /\ d[2].installed /\ d[3].installed /\ d[4].installed)

C7_Witness ==
    /\ out.op = "check_system_dependencies"
    /\ ~out.value.ready_to_record
    /\ out.value.dependencies[1].installed
    /\ out.value.dependencies[2].installed
    /\ out.value.dependencies[3].installed
    /\ ~out.value.dependencies[4].installed

\* index of the first occurrence of x in sq
FirstIndex(sq, x) ==
    CHOOSE k \in 1..Len(sq) : sq[k] = x /\ \A m \in 1..(k - 1) : sq[m] # x

\* C8: the list get_command_search_paths returns has no duplicate, holds
\* every candidate that was generated, and lists the candidates in the order
\* in which they were first generated, the candidates of PATH first.
C8_SearchPathsUniqueOrdered ==
    out.op = "get_command_search_paths" =>
        LET res == out.value
            gen == GeneratedPaths(env, out.command)
            fromPath == PathCandidates(env, out.command)
        IN
        /\ \A i, j \in 1..Len(res) : i # j => res[i] # res[j]
        /\ {res[i] : i \in 1..Len(res)} = {gen[i] : i \in 1..Len(gen)}
        /\ \A i, j \in 1..Len(res) :
              i < j => FirstIndex(gen, res[i]) < FirstIndex(gen, res[j])
        /\ \A i, j \in 1..Len(res) :
              (i < j /\ Contains(fromPath, res[j])) => Contains(fromPath, res[i])

C8_Witness ==
    /\ out.op = "get_command_search_paths"
    /\ env.PATH # None
    /\ Len(out.value) + 2 <= Len(GeneratedPaths(env, out.command))
    /\ Contains(PathCandidates(env, out.command), out.value[1])
    /\ \E i \in 1..Len(out.value) :
          FirstIndex(GeneratedPaths(env, out.command), out.value[i]) > i

\* the candidates of the search-path list that find_command_path accepts
Accepted(e, cands) ==
    {k \in 1..Len(cands) :
        \/ cands[k] \in e.files
        \/ (e.platform = "windows" /\ cands[k] \in e.files \cup e.dirs)}

\* C9: find_command_path always returns a path: the output of which/where
\* when it exits zero with non-empty output, else the first candidate of the
\* search-path list that is a regular file (that exists, on Windows), else
\* the bare command name.
C9_FindCommandPath ==
    out.op = "find_command_path" =>
        LET c == out.command
            w == Which(env, c)
            cands == GetCommandSearchPaths(env, c)
            hits == Accepted(env, cands)
        IN
        /\ out.value # None
        /\ IF w.success /\ w.stdout.body # ""
           THEN out.value = Some(w.stdout.body)
           ELSE IF hits # {}
           THEN \E k \in hits :
                  /\ out.value = Some(cands[k])
                  /\ \A m \in hits : k <= m
           ELSE out.value = Some(c)

C9_Witness ==
    /\ out.op = "find_command_path"
    /\ Which(env, out.command).success
    /\ Which(env, out.command).stdout.body = ""
    /\ \E k \in 2..Len(GetCommandSearchPaths(env, out.command)) :
          /\ out.value = Some(GetCommandSearchPaths(env, out.command)[k])
          /\ GetCommandSearchPaths(env, out.command)[1] \in env.dirs

\* the candidates of the ffmpeg search-path list that exist as a file (or
\* just exist, on Windows) and answer -version with exit code zero
Answering(e, cands) ==
    {k \in Accepted(e, cands) :
        /\ Exec(e, cands[k], <<"-version">>).ran
        /\ Exec(e, cands[k], <<"-version">>).success}

\* first line of a trimmed stdout, or the marker when nothing was printed
FirstLineOrInstalled(stdout) ==
    IF Trim(stdout) = <<>> THEN Installed ELSE <<Trim(stdout)[1]>>

\* C10: check_command never raises and falls through its tiers: when the
\* shell probe and the direct-path probe of ffmpeg both fail and a candidate
\* of the search-path list exists and answers -version with exit code zero,
\* the result is installed = true with the first line of the (trimmed)
\* stdout of the first such candidate, or 'installed' when it printed
\* nothing; when a tier fails the verdict is that of the next tier, and
\* (false, None) when no tier is left.
C10_TierFallthrough ==
    out.op = "check_command" =>
        LET c == out.command
            args == VersionArgs(c)
            t1 == Shell(env, c, args)
            tier1 == t1.ran /\ t1.success
            t2 == Exec(env, FindCommandPath(env, c)[1], args)
            tier2 == t2.ran /\ t2.success
            cands == GetCommandSearchPaths(env, "ffmpeg")
            W == Answering(env, cands)
            brew == env.platform = "macos" /\ env.brew.ran /\ env.brew.success
        IN
        /\ out.value[1] \in BOOLEAN
        /\ (~out.value[1]) => out.value[2] = None
        /\ tier1 => out.value[1]
        /\ (~tier1 /\ tier2)
             => out.value = <<TRUE, Some(IF Trim(t2.stdout) = <<>> THEN Installed
                                        ELSE Trim(t2.stdout))>>
        /\ (c = "ffmpeg" /\ ~tier1 /\ ~tier2 /\ W # {})
             => \E k \in W :
                  /\ \A m \in W : k <= m
                  /\ out.value =
                       <<TRUE, Some(FirstLineOrInstalled(
                                      Exec(env, cands[k], <<"-version">>).stdout))>>
        /\ (c = "ffmpeg" /\ ~tier1 /\ ~tier2 /\ W = {} /\ brew)
             => out.value = <<TRUE, Some(FirstLineOrInstalled(env.brew.stdout))>>
        /\ (~tier1 /\ ~tier2 /\ (c # "ffmpeg" \/ (W = {} /\ ~brew)))
             => out.value = <<FALSE, None>>

C10_Witness ==
    /\ out.op = "check_command"
    /\ out.command = "ffmpeg"
    /\ ~Shell(env, "ffmpeg", <<"-version">>).success
    /\ ~Exec(env, FindCommandPath(env, "ffmpeg")[1], <<"-version">>).success
    /\ FfmpegInPath \in env.files
    /\ FfmpegWellKnown(env.platform) \in env.files
    /\ out.value = <<TRUE, Some(<<"version " \o FfmpegWellKnown(env.platform)>>)>>
    /\ Exec(env, FfmpegWellKnown(env.platform), <<"-version">>).stdout[1] = ""

\* ------------------------------------------------------------------------
\* The application: properties
\* ------------------------------------------------------------------------
\* C16: a stop_recording or get_recording_status that runs after the recorder
\* of a start_recording was spawned and before its id is inserted does not
\* cancel the start: stop returns 'Recording session not found' and status
\* returns 'completed', neither touches the registry, the start in flight or
\* the process; the start then inserts the id and returns 'recording' without
\* touching the process, and nothing but that return ends the start.
C16_StartNotCancelled ==
    [][\A i \in spawned :
         /\ Completed(i, "stop_recording")
               => /\ ret'.kind = "Err"
                  /\ ret'.error = Some(ErrNotFound)
                  /\ UNCHANGED <<registry, spawned, child>>
         /\ Completed(i, "get_recording_status")
               => /\ ret'.kind = "Ok"
                  /\ ret'.status = "completed"
                  /\ UNCHANGED <<registry, spawned, child>>
         /\ i \notin spawned'
               => /\ Completed(i, "start_recording")
                  /\ ret'.kind = "Ok"
                  /\ ret'.status = "recording"
                  /\ registry' = registry \cup {i}
                  /\ child' = child
      ]_vars

C16_Witness ==
    \E i \in SessionIds :
        /\ hist[i] = <<"start:spawned", "stop:notfound", "status:completed",
                       "start:recording">>
        /\ ret.status = "recording"
        /\ i \in registry
        /\ child[i] = "running"

\* the positions of a handler at which it spawns or signals a process
ProcessSteps == {"spawn", "kill"}

\* C17 as stated: the guard of the registry is held for the map access only,
\* never while a subprocess is spawned, probed or signalled: no task that is
\* about to spawn or to kill a process holds it, so no task waits for the
\* lock during another task's process I/O.
C17_LockForMapAccessOnly ==
    \A t \in Tasks :
        /\ task[t].pc \in ProcessSteps => holder # Some(t)
        /\ \A u \in Tasks :
              (task[u].pc = "lock" /\ holder = Some(t))
                 => task[t].pc \notin ProcessSteps

\* the directory holds both markers, `src` and `package.json`
BothMarkers(e, dir) == dir \in e.srcDirs /\ dir \in e.pkgDirs

\* C18 as stated: the project root is the working directory when it holds
\* both markers, else its parent when the parent holds both markers, else the
\* working directory; a parent is never chosen unless it holds both markers.
C18_ProjectRoot ==
    (out.op = "get_project_root_path" /\ env.cwd # None) =>
        LET cwd == env.cwd[1]
            parent == Parent(cwd)
        IN /\ out.value =
                 IF BothMarkers(env, cwd) THEN PathStr(cwd)
                 ELSE IF parent # None /\ BothMarkers(env, parent[1])
                      THEN PathStr(parent[1])
                      ELSE PathStr(cwd)
           /\ (parent # None /\ out.value = PathStr(parent[1]))
                 => BothMarkers(env, parent[1])

\* C19 as stated: for every working directory the recordings directory that
\* start_recording creates is the directory 'recordings' under the root that
\* get_project_root_path returns, the one list_recordings enumerates and
\* open_recordings_folder opens.
C19_SameRecordingsDir ==
    (out.op = "start_recording" /\ out.value # None) =>
        out.value[1] = RecordingsPath(env)

\* C20: a stop_recording that fails because child.kill() failed has
\* nevertheless removed the session id from the registry: the id was
\* registered before the call and is not after it, the process is left as it
\* was, the next get_recording_status for the id returns 'completed' and the
\* next stop_recording for it returns 'Recording session not found'.
C20_KillFailureRemoves ==
    [][\A i \in SessionIds :
         /\ (Completed(i, "stop_recording") /\ ret'.error = Some(ErrKill))
               => /\ ret'.kind = "Err"
                  /\ i \in registry
                  /\ registry' = registry \ {i}
                  /\ child' = child
         /\ (hist[i] # <<>> /\ Last(hist[i]) = "stop:killfailed")
               => /\ i \notin registry
                  /\ Completed(i, "get_recording_status")
                        => (ret'.kind = "Ok" /\ ret'.status = "completed")
                  /\ Completed(i, "stop_recording")
                        => (ret'.kind = "Err" /\ ret'.error = Some(ErrNotFound))
      ]_vars

C20_Witness ==
    \E i \in SessionIds :
        /\ hist[i] = <<"start:spawned", "start:recording", "stop:killfailed",
                       "status:completed", "stop:notfound">>
        /\ ret.error = Some(ErrNotFound)
        /\ child[i] \in {"running", "exited"}

\* the installed flags of an InstallationStatus, in the order of its list
InstalledFlags(status) ==
    [k \in 1..Len(status.dependencies) |-> status.dependencies[k].installed]

\* the commands other than start, stop and status invoked so far
OtherCommands ==
    LET Count(h) == Cardinality({k \in 1..Len(h) :
                                    h[k] \in StatusOutcomes \cup StopOutcomes})
        RECURSIVE Sum(_)
        Sum(i) == IF i = 0 THEN 0 ELSE Count(hist[i]) + Sum(i - 1)
    IN calls - (nextId - 1) - Sum(MaxSessions)

\* this step is the command op, which is none of start, stop and status
OtherCommandStep(op) ==
    /\ calls' = calls + 1
    /\ nextId' = nextId
    /\ hist' = hist
    /\ out'.op = op

RecordingsEntries == ReadDir(env, GetProjectRootPath(env) \o "/recordings")

\* C14 as stated: list_recordings returns the empty list when the
\* recordings directory cannot be read and otherwise one name for every
\* entry of the directory that can be read; it never changes the registry.
C14_ListEveryReadableEntry ==
    [][OtherCommandStep("list_recordings") =>
         /\ registry' = registry
         /\ IF RecordingsEntries = None THEN out'.value = <<>>
            ELSE Len(out'.value) =
                   Len(SelectSeq(RecordingsEntries[1], LAMBDA x : x.ok))
      ]_vars

\* C14 (amended): list_recordings always returns a list: the empty list when
\* the recordings directory is missing or unreadable, otherwise the names of
\* the directory's entries in the order they are read, where the entries
\* that cannot be read and the entries whose name is not valid UTF-8 are
\* skipped; it never changes the session registry.
C14_ListRecordings ==
    [][OtherCommandStep("list_recordings") =>
         /\ registry' = registry
         /\ IF RecordingsEntries = None THEN out'.value = <<>>
            ELSE LET kept == SelectSeq(RecordingsEntries[1],
                                       LAMBDA x : x.ok /\ x.name # None)
                 IN out'.value = [k \in 1..Len(kept) |-> kept[k].name[1]]
      ]_vars

C14_Witness ==
    /\ out.op = "list_recordings"
    /\ RecordingsEntries # None
    /\ \E k \in 1..Len(RecordingsEntries[1]) : ~RecordingsEntries[1][k].ok
    /\ \E k \in 1..Len(RecordingsEntries[1]) :
          RecordingsEntries[1][k].ok /\ RecordingsEntries[1][k].name = None
    /\ Len(out.value) = 2
    /\ registry # {}

\* C15: an id leaves the registry only in a stop_recording call for it and
\* never enters it again; while it is registered get_recording_status
\* reports 'recording' for it, also after its recorder process has exited;
\* no status query, listing, dependency check or process exit changes the
\* registry.
C15_LeavesOnlyByStop ==
    [][/\ \A i \in registry \ registry' :
            /\ Completed(i, "stop_recording")
            /\ Last(hist'[i]) \in {"stop:ok", "stop:killfailed"}
       /\ \A i \in registry' \ registry :
            /\ Completed(i, "start_recording")
            /\ \A k \in 1..Len(hist[i]) :
                  hist[i][k] \notin {"start:recording", "stop:ok", "stop:killfailed"}
       /\ \A i \in registry :
            Completed(i, "get_recording_status") =>
              /\ ret'.kind = "Ok"
              /\ ret'.status = "recording"
              /\ i \in registry'
       /\ (\/ OtherCommandStep("list_recordings")
           \/ OtherCommandStep("check_system_dependencies")
           \/ child' # child /\ calls' = calls) => registry' = registry
      ]_vars

C15_Witness ==
    \E i, j \in SessionIds :
        /\ i \in registry
        /\ child[i] = "exited"
        /\ Len(hist[i]) >= 2
        /\ Last(hist[i]) = "status:recording"
        /\ j \notin registry
        /\ Last(<<"none">> \o hist[j]) = "stop:ok"
        /\ out.op \in {"list_recordings", "check_system_dependencies"}

\* ------------------------------------------------------------------------
\* Command line and output name: properties
\* ------------------------------------------------------------------------
\* flag is in args and value is the argument after it
HasFlag(args, flag, value) ==
    \E k \in 1..(Len(args) - 1) : args[k] = flag /\ args[k + 1] = value

FlagPresent(args, flag) == \E k \in 1..Len(args) : args[k] = flag

\* the decimal text of the numbers the requests carry
DecimalText == (10 :> "10") @@ (30 :> "30") @@ (1080 :> "1080") @@ (1920 :> "1920")

\* an optional field is on the command line exactly when it is present,
\* followed by its decimal value
OptionalFlag(args, flag, field) ==
    IF field = None THEN ~FlagPresent(args, flag)
    ELSE HasFlag(args, flag, DecimalText[field[1]])

\* the flags the argument vector carries for a request
NamedFlags(options, args) ==
    /\ HasFlag(args, "--url", Spell(options.figma_url))
    /\ HasFlag(args, "--mode", options.recording_mode)
    /\ HasFlag(args, "--format", options.format)
    /\ HasFlag(args, "--wait-for-canvas",
               IF options.wait_for_canvas THEN "true" ELSE "false")
    /\ OptionalFlag(args, "--duration", options.duration)
    /\ OptionalFlag(args, "--frame-rate", options.frame_rate)
    /\ OptionalFlag(args, "--width", options.custom_width)
    /\ OptionalFlag(args, "--height", options.custom_height)

\* C12: the argument vector of a request carries --url, --mode, --format and
\* --wait-for-canvas with the values of the request, carries --duration,
\* --frame-rate, --width and --height with the decimal value exactly when
\* the field is present, and maps every field of RecordingOptions onto a
\* flag of its own: two requests with the same argument vector are the same
\* request.
C12_EveryFieldOnAFlag ==
    out.op = "recorder_args" =>
        /\ NamedFlags(out.value.options, out.value.args)
        /\ \A other \in OptionsDrawn :
              RecorderArgs(other) = out.value.args => other = out.value.options

\* the pieces before the first "?"
BeforeQuery(pieces) == Split(pieces, "?")[1]

\* the decimal text of the timestamps the model draws
TimestampText == (7 :> "7") @@ (1234 :> "1234")

\* the parts of a URL that are not empty and longer than 10 characters
LongParts(figma_url) ==
    SelectSeq(Split(figma_url, "/"),
              LAMBDA part : part # <<>> /\ Len(Spell(part)) > 10)

\* C13: the output name is '<segment>-<timestamp>', where <segment> is the
\* first non-empty '/'-separated segment of the URL longer than 10
\* characters, cut at its first '?', and 'recording' when no segment
\* qualifies; the name is taken from the URL before its query string.
C13_OutputName ==
    out.op = "output_name" =>
        LET figma_url == out.value.figma_url
            suffix == "-" \o TimestampText[out.value.timestamp]
        IN
        /\ out.value.output_name =
              (IF LongParts(figma_url) = <<>> THEN "recording"
               ELSE Spell(BeforeQuery(LongParts(figma_url)[1]))) \o suffix
        /\ \/ out.value.output_name = "recording" \o suffix
           \/ \E k \in 1..Len(Split(BeforeQuery(figma_url), "/")) :
                 out.value.output_name =
                   Spell(Split(BeforeQuery(figma_url), "/")[k]) \o suffix

====
